---- MODULE Spec2Model ----
(*****************************************************************************)
(* CO2 compressor weekly planning: the CompressorOptimizer class, which      *)
(* the repository defines twice, in app.py (the Streamlit application) and   *)
(* in compressor_optimizer.py.  The two copies differ in their lookup        *)
(* functions, so both are modelled; the variable self says which copy was    *)
(* constructed.                                                              *)
(*                                                                           *)
(* Numbers.  The code computes in doubles; the model computes the same       *)
(* expressions exactly, in integers:                                         *)
(*   - tons are counted in units of 1/300000 ton (Ton), fine enough for      *)
(*     every product 106.875 * load, 83.125 * load, ... of the code to be    *)
(*     an integer;                                                           *)
(*   - load ratios are counted in units of 1/199500000 (LoadOne is 1.0).     *)
(*     The ten literals of rpm_load_map are k/285 written to 15 decimals     *)
(*     (0.617543859649123 is 176/285, ..., 0.996491228070175 is 284/285),    *)
(*     so a literal lies just above or just below the ratio the code         *)
(*     computes as k/285, and the comparison of the two goes accordingly.    *)
(*     The model keeps that: every computed ratio is an even number of       *)
(*     units, and a literal is k/285 plus one, minus one or plus no unit.    *)
(*     A product with a literal is rounded to the nearest tonnage unit,      *)
(*     which is the product with k/285;                                      *)
(*   - round(x, 1) of a value that is exactly midway between two tenths      *)
(*     returns either tenth, as the double decides.                          *)
(* Modes and alerts are the code's Chinese strings, written in ASCII:        *)
(* single, dual, dual_refill; high, low, normal.                             *)
(*****************************************************************************)
EXTENDS Integers, Sequences, FiniteSets, TLC

VARIABLES self, default_params, pc, loading_data, i, current_capacity,
          empty_loss, results, fn, args, returned

planVars == <<default_params, pc, loading_data, i, current_capacity, empty_loss, results>>
lookupVars == <<fn, args, returned>>
vars == <<self, default_params, pc, loading_data, i, current_capacity,
          empty_loss, results, fn, args, returned>>

-----------------------------------------------------------------------------
(* Units and Python arithmetic *)

Ton == 3 * 100000
LoadOne == 285 * 700000

\* p hundredths as a load ratio: Pct(62) is 0.62
Pct(p) == p * (LoadOne \div 100)

Max2(a, b) == IF a >= b THEN a ELSE b
Min2(a, b) == IF a <= b THEN a ELSE b
SetMax(S) == CHOOSE x \in S : \A y \in S : y <= x
SetMin(S) == CHOOSE x \in S : \A y \in S : x <= y
Abs(x) == IF x < 0 THEN 0 - x ELSE x

\* Python 3 round(n / q) for integers n and q > 0: to nearest, ties to even
py_round(n, q) ==
    LET f == n \div q
        r == n % q
    IN  IF 2 * r < q THEN f
        ELSE IF 2 * r > q THEN f + 1
        ELSE IF f % 2 = 0 THEN f ELSE f + 1

\* round(x, 1) of a tonnage.  The operand is a double: where the exact value
\* lies midway between two tenths, the double lies on either side of it, and
\* round returns either tenth
round1(x) ==
    LET q == Ton \div 10
    IN  IF 2 * (x % q) = q THEN {(x \div q) * q, (x \div q) * q + q}
        ELSE {py_round(x, q) * q}

\* round(x, 5) of a tonnage and round(x, 4) of a load ratio, which meet no tie
round5(x) == py_round(x, Ton \div 100000) * (Ton \div 100000)
round4(l) == py_round(l, LoadOne \div 10000) * (LoadOne \div 10000)

\* x * 0.75, and x / 106.875 etc. as a load ratio (x a tonnage)
times075(x) == (x * 3) \div 4
div106_875(x) == (x \div 9) * 56
div213_75(x) == (x \div 9) * 28
div83_125(x) == x * 8
div166_25(x) == x * 4
\* 106.875 * l etc. as a tonnage (l a load ratio)
mul106_875(l) == py_round(l * 9, 56)
mul213_75(l) == py_round(l * 9, 28)
mul83_125(l) == py_round(l, 8)
mul166_25(l) == py_round(l, 4)

-----------------------------------------------------------------------------
(* __init__: the tables *)

Impl == {"app", "optimizer"}

DefaultParams == [current_capacity |-> 1000 * Ton, empty_loss |-> 60 * Ton]

\* the literal that is k/285 to 15 decimals: as a double it lies above the
\* double of k/285 (off = 1), below it (off = -1) or is that double (off = 0)
literal(k, off) == k * (LoadOne \div 285) + off

\* rpm_load_map with two digits of the entry for 530 transposed
\* (0.7179 for 0.7719...)
rpm_load_map_typo ==
    [r \in {450, 470, 490, 510, 530, 550, 570, 590, 610, 630} |->
        CASE r = 450 -> literal(176, 1)
          [] r = 470 -> literal(188, 1)
          [] r = 490 -> literal(198, -1)
          [] r = 510 -> literal(210, 1)
          [] r = 530 -> 7179 * (LoadOne \div 10000)
          [] r = 550 -> literal(232, -1)
          [] r = 570 -> literal(244, 0)
          [] r = 590 -> literal(254, 1)
          [] r = 610 -> literal(266, -1)
          [] r = 630 -> literal(284, -1)]

\* rpm_load_map
rpm_load_map ==
    [r \in {450, 470, 490, 510, 530, 550, 570, 590, 610, 630} |->
        CASE r = 450 -> literal(176, 1)    \* 0.617543859649123
          [] r = 470 -> literal(188, 1)    \* 0.659649122807018
          [] r = 490 -> literal(198, -1)   \* 0.694736842105263
          [] r = 510 -> literal(210, 1)    \* 0.736842105263158
          [] r = 530 -> literal(220, -1)   \* 0.771929824561403
          [] r = 550 -> literal(232, -1)   \* 0.814035087719298
          [] r = 570 -> literal(244, 0)    \* 0.856140350877193, the double of 244/285
          [] r = 590 -> literal(254, 1)    \* 0.891228070175439
          [] r = 610 -> literal(266, -1)   \* 0.933333333333333
          [] r = 630 -> literal(284, -1)]  \* 0.996491228070175

\* load_rpm_map = {v: k for k, v in rpm_load_map.items()}
load_rpm_map(l) == CHOOSE r \in DOMAIN rpm_load_map : rpm_load_map[r] = l

\* app.py only: the rounded load ratios the lookups use
load_list == <<Pct(62), Pct(66), Pct(69), Pct(74), Pct(77), Pct(81), Pct(86), Pct(89), Pct(93), Pct(100)>>
rpm_list == <<450, 470, 490, 510, 530, 550, 570, 590, 610, 630>>

days == <<"Mon", "Tue", "Wed", "Thu", "Fri", "Sat", "Sun">>

\* the thresholds 0.62 and 0.9965 of get_rpm_from_load
LowLoad == Pct(62)
HighLoad == 9965 * (LoadOne \div 10000)

-----------------------------------------------------------------------------
(* The lookups *)

\* round(rpm / 20) * 20
snap20(rpm) == py_round(rpm, 20) * 20

app_get_rpm_from_load(load_rate) ==
    IF load_rate <= LowLoad THEN 450
    ELSE IF load_rate >= HighLoad THEN 630
    ELSE LET S == {k \in 1..Len(load_list) : load_list[k] <= load_rate}
         IN  IF S = {} THEN 450
             ELSE Min2(630, Max2(450, snap20(rpm_list[SetMax(S)])))

opt_get_rpm_from_load(load_rate) ==
    IF load_rate <= LowLoad THEN 450
    ELSE IF load_rate >= HighLoad THEN 630
    ELSE LET closest_load == SetMax({rpm_load_map[r] : r \in
                                 {r \in DOMAIN rpm_load_map : rpm_load_map[r] <= load_rate}})
             near == {r \in DOMAIN rpm_load_map :
                           Abs(rpm_load_map[r] - closest_load) < LoadOne \div 10000}
         IN  IF near # {} THEN SetMin(near)
             ELSE snap20(load_rpm_map(closest_load))

get_rpm_from_load(slf, load_rate) ==
    IF slf = "app" THEN app_get_rpm_from_load(load_rate)
    ELSE opt_get_rpm_from_load(load_rate)

app_get_load_from_rpm(rpm) ==
    LET rpm_rounded == snap20(rpm)
        S == {k \in 1..Len(rpm_list) : rpm_list[k] <= rpm_rounded}
    IN  IF S = {} THEN Pct(62) ELSE load_list[SetMax(S)]

opt_get_load_from_rpm(rpm) ==
    IF rpm \in DOMAIN rpm_load_map THEN rpm_load_map[rpm] ELSE Pct(62)

get_load_from_rpm(slf, rpm) ==
    IF slf = "app" THEN app_get_load_from_rpm(rpm)
    ELSE opt_get_load_from_rpm(rpm)

-----------------------------------------------------------------------------
(* Output, mode and speeds *)

\* calculate_daily_output doubling the output for "dual" only, so that a
\* refill day is computed as a single-machine day
calculate_daily_output_dual_only(mode, flat_load, peak_load) ==
    IF mode # "dual"
    THEN 95 * Ton + mul106_875(flat_load) + mul83_125(peak_load)
    ELSE 190 * Ton + mul213_75(flat_load) + mul166_25(peak_load)

calculate_daily_output(mode, flat_load, peak_load) ==
    IF mode = "single"
    THEN 95 * Ton + mul106_875(flat_load) + mul83_125(peak_load)
    ELSE 190 * Ton + mul213_75(flat_load) + mul166_25(peak_load)

\* determine_mode with the capacity bound included (<= 900 for < 900)
determine_mode_le(daily_demand, capacity) ==
    IF capacity <= 900 * Ton /\ daily_demand <= 350 * Ton THEN "dual_refill"
    ELSE IF daily_demand > 350 * Ton THEN "dual"
    ELSE "single"

determine_mode(daily_demand, capacity) ==
    IF capacity < 900 * Ton /\ daily_demand <= 350 * Ton THEN "dual_refill"
    ELSE IF daily_demand > 350 * Ton THEN "dual"
    ELSE "single"

\* max(0.62, min(1.0, x))
clamp_load(x) == Max2(Pct(62), Min2(LoadOne, x))

\* the snap without the clamp to [450, 630]
snap_unclamped(base_rpm) == py_round(base_rpm, 20) * 20

\* compressor_optimizer.py: max(450, min(630, round(base_rpm / 20) * 20))
clamp_snap(base_rpm) == Max2(450, Min2(630, snap20(base_rpm)))

flat_required_load(mode, daily_demand) ==
    IF mode = "single"
    THEN div106_875(times075(daily_demand - 95 * Ton))
    ELSE div213_75(times075(daily_demand - 190 * Ton))

app_calculate_flat_rpm(mode, daily_demand) ==
    app_get_rpm_from_load(clamp_load(flat_required_load(mode, daily_demand)))

opt_calculate_flat_rpm(mode, daily_demand) ==
    clamp_snap(opt_get_rpm_from_load(clamp_load(flat_required_load(mode, daily_demand))))

calculate_flat_rpm(slf, mode, daily_demand) ==
    IF slf = "app" THEN app_calculate_flat_rpm(mode, daily_demand)
    ELSE opt_calculate_flat_rpm(mode, daily_demand)

peak_required_load(slf, mode, flat_rpm, daily_demand) ==
    LET flat_load == get_load_from_rpm(slf, flat_rpm)
    IN  IF mode = "single"
        THEN div83_125(daily_demand - 95 * Ton - mul106_875(flat_load))
        ELSE div166_25(daily_demand - 190 * Ton - mul213_75(flat_load))

app_calculate_peak_rpm(mode, flat_rpm, daily_demand) ==
    app_get_rpm_from_load(clamp_load(peak_required_load("app", mode, flat_rpm, daily_demand)))

opt_calculate_peak_rpm(mode, flat_rpm, daily_demand) ==
    clamp_snap(opt_get_rpm_from_load(
        clamp_load(peak_required_load("optimizer", mode, flat_rpm, daily_demand))))

calculate_peak_rpm(slf, mode, flat_rpm, daily_demand) ==
    IF slf = "app" THEN app_calculate_peak_rpm(mode, flat_rpm, daily_demand)
    ELSE opt_calculate_peak_rpm(mode, flat_rpm, daily_demand)

-----------------------------------------------------------------------------
(* Inputs of the model *)

\* longest loading_data the caller passes (days has 7 entries)
MaxLen == 8
\* load ratios probed: 0.00, 0.01, ..., MaxLoadPct/100, the table's own
\* entries and the threshold 0.9965
MaxLoadPct == 105
\* speeds probed: 430, 435, ..., 430 + 5 * MaxRpmStep
MaxRpmStep == 44
\* daily demands probed: 0, 10, ..., 10 * MaxDemandStep tons
MaxDemandStep == 60

Loadings == {240 * Ton, 310 * Ton}
CapacityInputs == {330 * Ton, 900 * Ton, 1000 * Ton, 1350 * Ton}
LossInputs == {40 * Ton, 60 * Ton}
LoadingData == UNION {[1..n -> Loadings] : n \in 0..MaxLen}

LoadInputs == {Pct(p) : p \in 0..MaxLoadPct}
                 \cup {rpm_load_map[r] : r \in DOMAIN rpm_load_map} \cup {HighLoad}
RpmInputs == {430 + 5 * k : k \in 0..MaxRpmStep}
DemandInputs == {10 * d * Ton : d \in 0..MaxDemandStep} \cup {350 * Ton + Ton \div 100}
Modes == {"single", "dual", "dual_refill"}
FlatRpmInputs == {450, 470, 480, 490, 520, 560, 600, 630}

-----------------------------------------------------------------------------
(* generate_weekly_plan, one action per loop iteration *)

Init ==
    /\ self \in Impl
    /\ default_params = DefaultParams
    /\ pc = "idle"
    /\ loading_data = <<>>
    /\ i = 0
    /\ current_capacity = 0
    /\ empty_loss = 0
    /\ results = <<>>
    /\ fn = "none"
    /\ args = <<>>
    /\ returned = <<>>

\* main(): the sidebar writes the two overridable parameters
set_default_params ==
    /\ pc = "idle"
    /\ \E cap \in CapacityInputs, loss \in LossInputs :
          default_params' = [current_capacity |-> cap, empty_loss |-> loss]
    /\ UNCHANGED <<self, pc, loading_data, i, current_capacity, empty_loss, results>>
    /\ UNCHANGED lookupVars

\* entry of generate_weekly_plan: results = [], the two parameters are read
generate_weekly_plan ==
    /\ pc = "idle"
    /\ \E ld \in LoadingData : loading_data' = ld
    /\ results' = <<>>
    /\ current_capacity' = default_params.current_capacity
    /\ empty_loss' = default_params.empty_loss
    /\ i' = 0
    /\ pc' = "loop"
    /\ UNCHANGED <<self, default_params>>
    /\ UNCHANGED lookupVars

\* the alert of an end capacity
capacity_alert(end_capacity) ==
    IF end_capacity > 1300 * Ton THEN "high"
    ELSE IF end_capacity < 900 * Ton THEN "low"
    ELSE "normal"

\* the locals of one pass of the loop body
loop_body(slf, loading, capacity, loss) ==
    LET daily_demand == loading + loss
        mode == determine_mode(daily_demand, capacity)
        flat_rpm == calculate_flat_rpm(slf, mode, daily_demand)
        peak_rpm == calculate_peak_rpm(slf, mode, flat_rpm, daily_demand)
        flat_load == get_load_from_rpm(slf, flat_rpm)
        peak_load == get_load_from_rpm(slf, peak_rpm)
        output == calculate_daily_output(mode, flat_load, peak_load)
        capacity_change == output - daily_demand
        end_capacity == capacity + capacity_change
    IN  [loading |-> loading,
         daily_demand |-> daily_demand,
         current_capacity |-> capacity,
         mode |-> mode,
         valley_rpm |-> 630,
         flat_rpm |-> flat_rpm,
         peak_rpm |-> peak_rpm,
         flat_load |-> flat_load,
         peak_load |-> peak_load,
         output |-> output,
         capacity_change |-> capacity_change,
         end_capacity |-> end_capacity,
         refill_flag |-> (mode = "dual_refill"),
         alert |-> capacity_alert(end_capacity)]

\* the dictionaries results.append can receive: the locals v of day index k
\* (0-based), rounded as the code rounds them
day_record(k, v) ==
    {[date |-> days[k + 1],
      loading |-> v.loading,
      daily_demand |-> round5(v.daily_demand),
      start_capacity |-> round5(v.current_capacity),
      mode |-> v.mode,
      valley_rpm |-> v.valley_rpm,
      flat_rpm |-> v.flat_rpm,
      peak_rpm |-> v.peak_rpm,
      flat_load |-> round4(v.flat_load),
      peak_load |-> round4(v.peak_load),
      output |-> o,
      capacity_change |-> c,
      end_capacity |-> e,
      refill_flag |-> v.refill_flag,
      alert |-> v.alert] :
        o \in round1(v.output), c \in round1(v.capacity_change), e \in round1(v.end_capacity)}

\* one pass of the loop body for loading_data[i], i < len(days)
loop_iteration ==
    /\ pc = "loop"
    /\ i < Len(loading_data)
    /\ i < Len(days)
    /\ \E v \in {loop_body(self, loading_data[i + 1], current_capacity, empty_loss)} :
           /\ \E rec \in day_record(i, v) : results' = Append(results, rec)
           /\ current_capacity' = v.end_capacity
    /\ i' = i + 1
    /\ UNCHANGED <<self, default_params, pc, loading_data, empty_loss>>
    /\ UNCHANGED lookupVars

\* an eighth loading: days[i] raises IndexError while the record is built,
\* and the rows computed so far are dropped with the frame
loop_index_error ==
    /\ pc = "loop"
    /\ i < Len(loading_data)
    /\ i >= Len(days)
    /\ pc' = "raised"
    /\ results' = <<>>
    /\ UNCHANGED <<self, default_params, loading_data, i, current_capacity, empty_loss>>
    /\ UNCHANGED lookupVars

\* loading_data is exhausted: return pd.DataFrame(results)
return_plan ==
    /\ pc = "loop"
    /\ i = Len(loading_data)
    /\ pc' = "returned"
    /\ UNCHANGED <<self, default_params, loading_data, i, current_capacity, empty_loss, results>>
    /\ UNCHANGED lookupVars

Next ==
    \/ set_default_params
    \/ generate_weekly_plan
    \/ loop_iteration
    \/ loop_index_error
    \/ return_plan

Spec == Init /\ [][Next]_vars

-----------------------------------------------------------------------------
(* The pure functions called directly (pc = "direct"): fn is the function,  *)
(* args the arguments of the calls the caller makes in turn, returned what  *)
(* the calls made so far returned                                           *)

OrderedPairs(S) == {<<a, b>> : a \in S, b \in S} \cap {p \in S \X S : p[1] <= p[2]}

InitLookup ==
    /\ self \in Impl
    /\ default_params = DefaultParams
    /\ pc = "direct"
    /\ loading_data = <<>>
    /\ i = 0
    /\ current_capacity = 0
    /\ empty_loss = 0
    /\ results = <<>>
    /\ returned = <<>>
    /\ \/ fn = "get_rpm_from_load" /\ args \in OrderedPairs(LoadInputs)
       \/ fn = "get_load_from_rpm" /\ args \in OrderedPairs(RpmInputs)
       \/ /\ fn = "calculate_flat_rpm"
          /\ args \in {<<[mode |-> m, daily_demand |-> d]>> : m \in Modes, d \in DemandInputs}
       \/ /\ fn = "calculate_peak_rpm"
          /\ args \in {<<[mode |-> m, flat_rpm |-> r, daily_demand |-> d]>> :
                          m \in Modes, r \in FlatRpmInputs, d \in DemandInputs}

\* the argument of the next call
next_arg == args[Len(returned) + 1]

call_get_rpm_from_load ==
    /\ fn = "get_rpm_from_load"
    /\ Len(returned) < Len(args)
    /\ returned' = Append(returned, get_rpm_from_load(self, next_arg))
    /\ UNCHANGED <<self, fn, args>>
    /\ UNCHANGED planVars

call_get_load_from_rpm ==
    /\ fn = "get_load_from_rpm"
    /\ Len(returned) < Len(args)
    /\ returned' = Append(returned, get_load_from_rpm(self, next_arg))
    /\ UNCHANGED <<self, fn, args>>
    /\ UNCHANGED planVars

call_calculate_flat_rpm ==
    /\ fn = "calculate_flat_rpm"
    /\ Len(returned) < Len(args)
    /\ returned' = Append(returned,
                      calculate_flat_rpm(self, next_arg.mode, next_arg.daily_demand))
    /\ UNCHANGED <<self, fn, args>>
    /\ UNCHANGED planVars

call_calculate_peak_rpm ==
    /\ fn = "calculate_peak_rpm"
    /\ Len(returned) < Len(args)
    /\ returned' = Append(returned,
                      calculate_peak_rpm(self, next_arg.mode, next_arg.flat_rpm,
                                         next_arg.daily_demand))
    /\ UNCHANGED <<self, fn, args>>
    /\ UNCHANGED planVars

NextLookup ==
    \/ call_get_rpm_from_load
    \/ call_get_load_from_rpm
    \/ call_calculate_flat_rpm
    \/ call_calculate_peak_rpm

SpecLookup == InitLookup /\ [][NextLookup]_vars

\* both: an instance either generates plans or has its methods called directly
SpecAll == (Init \/ InitLookup) /\ [][Next \/ NextLookup]_vars

-----------------------------------------------------------------------------
(* Properties *)

TableSpeeds == DOMAIN rpm_load_map

\* the speed -> load ratio table a copy of the class looks values up in
Tabulated(slf) ==
    IF slf = "app" THEN [r \in TableSpeeds |->
                            load_list[CHOOSE k \in 1..Len(rpm_list) : rpm_list[k] = r]]
    ELSE rpm_load_map

Rows == 1..Len(results)

\* C1: in a plan, the end capacity recorded for day j equals the start
\* capacity recorded for day j + 1.
C1_Chaining ==
    \A j \in Rows : j + 1 \in Rows => results[j].end_capacity = results[j + 1].start_capacity

C2_Mode(daily_demand, capacity) ==
    CASE capacity < 900 * Ton /\ daily_demand <= 350 * Ton -> "dual_refill"
      [] daily_demand > 350 * Ton -> "dual"
      [] OTHER -> "single"

\* C2: every iteration of the loop gives the day the mode of the decision
\* table, applied to that day's demand (loading + empty loss) and to the
\* running capacity the previous day left: refill exactly when capacity < 900
\* and demand <= 350, dual exactly when demand > 350, single otherwise.
C2_ModeDecision ==
    [][(pc = "loop" /\ i' = i + 1) =>
          LET d == loading_data[i + 1] + empty_loss
              row == results'[i + 1]
          IN  /\ row.mode = C2_Mode(d, current_capacity)
              /\ (row.mode = "dual_refill") = (current_capacity < 900 * Ton /\ d <= 350 * Ton)
              /\ (row.mode = "dual") = (d > 350 * Ton)
              /\ row.refill_flag = (row.mode = "dual_refill")]_vars

\* a day with demand exactly 350 at capacity exactly 900 ran in single mode,
\* a later day ran in refill mode and another in dual mode
C2_Witness ==
    /\ \E j \in Rows : /\ results[j].daily_demand = 350 * Ton
                       /\ results[j].start_capacity = 900 * Ton
                       /\ results[j].mode = "single"
    /\ \E j \in Rows : results[j].mode = "dual_refill"

\* C3: generate_weekly_plan returns a plan only for exactly 7 loadings.
C3_RejectsWrongLength ==
    pc = "returned" => Len(loading_data) = Len(days)

C4_Alert(end_capacity) ==
    IF end_capacity > 1300 * Ton THEN "high"
    ELSE IF end_capacity < 900 * Ton THEN "low"
    ELSE "normal"

\* C4: every day's alert is the one its recorded end capacity calls for: high
\* when above 1300, low when below 900, normal otherwise, 1300 and 900
\* included.
C4_AlertBoundary ==
    \A j \in Rows : results[j].alert = C4_Alert(results[j].end_capacity)

C5_Rpm(slf, load_rate) ==
    IF load_rate <= Pct(62) THEN 450
    ELSE IF load_rate >= HighLoad THEN 630
    ELSE LET below == {r \in TableSpeeds : Tabulated(slf)[r] <= load_rate}
         IN  CHOOSE r \in below : \A q \in below : Tabulated(slf)[q] <= Tabulated(slf)[r]

\* C5: get_rpm_from_load returns 450 up to 0.62, 630 from 0.9965, and in
\* between the speed of the largest tabulated load ratio not above its
\* argument, so that a tabulated ratio gives its own speed.
C5_RpmFromLoadContract ==
    fn = "get_rpm_from_load" =>
        \A j \in 1..Len(returned) : returned[j] = C5_Rpm(self, args[j])

\* the multiples of 20 nearest to a speed (two of them at a tie)
C6_Nearest20(rpm) ==
    LET lo == 20 * (rpm \div 20)
    IN  IF rpm % 20 < 10 THEN {lo} ELSE IF rpm % 20 > 10 THEN {lo + 20} ELSE {lo, lo + 20}

C6_Loads(slf, rpm) ==
    {Tabulated(slf)[SetMax({r \in TableSpeeds : r <= rr})] :
        rr \in {x \in C6_Nearest20(rpm) : x >= 450}}
      \cup (IF rpm < 450 THEN {Pct(62)} ELSE {})

\* C6: get_load_from_rpm returns the load ratio tabulated for the largest
\* table speed not above its argument rounded to the nearest multiple of 20,
\* and the floor 0.62 only for an argument below 450.
C6_LoadFromRpmContract ==
    fn = "get_load_from_rpm" =>
        \A j \in 1..Len(returned) : returned[j] \in C6_Loads(self, args[j])

SpeedFns == {"get_rpm_from_load", "calculate_flat_rpm", "calculate_peak_rpm"}

C8_TabulatedSpeeds ==
    \A j \in Rows : {results[j].valley_rpm, results[j].flat_rpm, results[j].peak_rpm}
                        \subseteq TableSpeeds

\* C9: of two calls, the one with the smaller argument does not return the
\* larger value: get_rpm_from_load for any two load ratios, get_load_from_rpm
\* for any two tabulated speeds.
C9_Monotone ==
    (Len(returned) = 2 /\ args[1] <= args[2]) =>
        /\ fn = "get_rpm_from_load" => returned[1] <= returned[2]
        /\ (fn = "get_load_from_rpm" /\ args[1] \in TableSpeeds /\ args[2] \in TableSpeeds)
              => returned[1] <= returned[2]

\* two adjacent tabulated speeds were looked up
C9_Witness ==
    /\ fn = "get_load_from_rpm"
    /\ args = <<510, 530>>
    /\ Len(returned) = 2

\* C10: a day in refill mode produces more than its demand: its recorded
\* change is positive, its recorded end capacity is above its recorded start
\* capacity, and the running capacity grows.
C10_RefillReplenishes ==
    [][(pc = "loop" /\ i' = i + 1 /\ results'[i + 1].mode = "dual_refill") =>
          LET row == results'[i + 1]
          IN  /\ row.output > row.daily_demand
              /\ row.capacity_change > 0
              /\ row.end_capacity > row.start_capacity
              /\ current_capacity' > current_capacity]_vars

\* a plan was returned with a refill day at demand 350, the largest demand
\* refill mode takes
C10_Witness ==
    /\ pc = "returned"
    /\ \E j \in Rows : results[j].mode = "dual_refill" /\ results[j].daily_demand = 350 * Ton

====
